---- MODULE Spec2Model ----
(***************************************************************************)
(* Model of backend/routes/starredRestaurants.js: the Express router that  *)
(* keeps the in-memory list STARRED_RESTAURANTS and joins it against the   *)
(* restaurant catalog ALL_RESTAURANTS.                                     *)
(*                                                                         *)
(* Spec      one request at a time, each handler one atomic action; the    *)
(*           request, its response and the list before it are recorded.    *)
(* ConcSpec  several requests in flight, each handler broken into the      *)
(*           statements of its body, scheduled as the event loop           *)
(*           schedules synchronous callbacks.                              *)
(***************************************************************************)
EXTENDS Integers, Sequences, FiniteSets, TLC

VARIABLES
    STARRED_RESTAURANTS,  \* the module-level list (line 10)
    issued,               \* number of ids uuidv4() has returned so far
    req,                  \* the request handled last (Spec)
    res,                  \* its response (Spec)
    before,               \* STARRED_RESTAURANTS when that request arrived
    lastCreated,          \* the record the request before it created, if any
    handlers,             \* ConcSpec: per request slot, the handler's frame
    acked                 \* ConcSpec: responses already sent, per slot

vars == <<STARRED_RESTAURANTS, issued, req, res, before, lastCreated, handlers, acked>>

seqVars == <<req, res, before, lastCreated>>
concVars == <<handlers, acked>>

----------------------------------------------------------------------------
(* Bounds *)

\* how many ids uuidv4() may hand out in one run
MaxUuid == 3

\* how many requests one concurrent run holds
MaxSlots == 3

----------------------------------------------------------------------------
(* Values *)

\* JavaScript's undefined (an absent body field, the result of a failed find)
Undefined == "<undefined>"

\* the restaurant catalog exported by ./restaurants: read-only {id, name}
\* records; it holds the restaurants of the two seed records
ALL_RESTAURANTS ==
    << [id |-> "869c848c-7a58-4ed6-ab88-72ee2e8e677c", name |-> "Pho Vietnam"],
       [id |-> "e8036613-4b72-46f6-ab5e-edd2fc7c4fe4", name |-> "Sushi Go"],
       [id |-> "R1", name |-> "Pho Palace"] >>

\* the list as the module is loaded
SeedStarred ==
    << [id |-> "a7272cd9-26fb-44b5-8d53-9781f55175a1",
        restaurantId |-> "869c848c-7a58-4ed6-ab88-72ee2e8e677c",
        comment |-> "Best pho in NYC"],
       [id |-> "8df59b21-2152-4f9b-9200-95c19aa88226",
        restaurantId |-> "e8036613-4b72-46f6-ab5e-edd2fc7c4fe4",
        comment |-> "Their lunch special is the best!"] >>

\* uuidv4(): the n-th call returns an id that no earlier call returned and
\* that is not one of the literal ids of the seed list
uuidv4(n) == "uuid-" \o ToString(n)

Range(s) == {s[i] : i \in DOMAIN s}

Min(set) == CHOOSE x \in set : \A y \in set : x <= y

\* request inputs
CatalogIds == {ALL_RESTAURANTS[i].id : i \in DOMAIN ALL_RESTAURANTS}
RestaurantIdInputs == CatalogIds \cup {"unknown-id", Undefined}
CommentInputs == {Undefined, "", "Great!"}
NewCommentInputs == {"Changed"}
IdInputs == {SeedStarred[i].id : i \in DOMAIN SeedStarred}
                \cup {uuidv4(n) : n \in 1..MaxUuid} \cup {"nonexistent-id"}

NoBody == [kind |-> "none", items |-> << >>]
ObjectBody(o) == [kind |-> "object", items |-> <<o>>]
ArrayBody(a) == [kind |-> "array", items |-> a]

NoRequest == [op |-> "none", id |-> Undefined, restaurantId |-> Undefined,
              comment |-> Undefined]
NoResponse == [status |-> 0, body |-> NoBody]

----------------------------------------------------------------------------
(* The expressions of the handlers *)

\* ALL_RESTAURANTS.find(r => r.id === restaurantId): index of the first
\* match, 0 for undefined
FindRestaurant(restaurantId) ==
    LET hits == {i \in DOMAIN ALL_RESTAURANTS :
                    ALL_RESTAURANTS[i].id = restaurantId}
    IN  IF hits = {} THEN 0 ELSE Min(hits)

\* a find that compares the restaurantId field instead of the id field
FindStarred_ByRestaurantId(list, id) ==
    LET hits == {i \in DOMAIN list : list[i].restaurantId = id}
    IN  IF hits = {} THEN 0 ELSE Min(hits)

\* STARRED_RESTAURANTS.find(r => r.id === id): index of the first match,
\* 0 for undefined
FindStarred(list, id) ==
    LET hits == {i \in DOMAIN list : list[i].id = id}
    IN  IF hits = {} THEN 0 ELSE Min(hits)

\* a view whose name is taken from the starred record instead of the join
JoinedView_NameFromStarred(starredRestaurant, restaurant) ==
    [id |-> starredRestaurant.id,
     comment |-> starredRestaurant.comment,
     name |-> starredRestaurant.restaurantId]

\* { id, comment, name } of a starred record and its restaurant
JoinedView(starredRestaurant, restaurant) ==
    [id |-> starredRestaurant.id,
     comment |-> starredRestaurant.comment,
     name |-> restaurant.name]

\* STARRED_RESTAURANTS.map(...) of GET /
JoinedStarredRestaurants(list) ==
    [i \in DOMAIN list |->
        JoinedView(list[i], ALL_RESTAURANTS[FindRestaurant(list[i].restaurantId)])]

\* GET /: restaurant.name throws on undefined and the response is Express's
\* 500; otherwise the joined list
ListResponse(list) ==
    IF \E i \in DOMAIN list : FindRestaurant(list[i].restaurantId) = 0
    THEN [status |-> 500, body |-> NoBody]
    ELSE [status |-> 200, body |-> ArrayBody(JoinedStarredRestaurants(list))]

\* GET /:id
GetResponse(list, id) ==
    LET s == FindStarred(list, id) IN
    IF s = 0 THEN [status |-> 404, body |-> NoBody]
    ELSE LET r == FindRestaurant(list[s].restaurantId) IN
         IF r = 0 THEN [status |-> 404, body |-> NoBody]
         ELSE [status |-> 200,
               body |-> ObjectBody(JoinedView(list[s], ALL_RESTAURANTS[r]))]

\* a duplicate check that compares the record id instead of restaurantId
AlreadyStarred_ById(list, restaurantId) ==
    \E i \in DOMAIN list : list[i].id = restaurantId

\* STARRED_RESTAURANTS.some(r => r.restaurantId === restaurantId)
AlreadyStarred(list, restaurantId) ==
    \E i \in DOMAIN list : list[i].restaurantId = restaurantId

\* the comment stored as received, without the default
CommentOrEmpty_Raw(comment) == comment

\* comment || '' : undefined and the empty string are falsy
CommentOrEmpty(comment) ==
    IF comment = Undefined \/ comment = "" THEN "" ELSE comment

\* { id: uuidv4(), restaurantId, comment: comment || '' }
NewStarred(id, restaurantId, comment) ==
    [id |-> id, restaurantId |-> restaurantId,
     comment |-> CommentOrEmpty(comment)]

\* STARRED_RESTAURANTS.push(newStarred)
Push(list, newStarred) == Append(list, newStarred)

\* POST / without the 409 branch
CreateStatus_NoConflict(list, restaurantId) ==
    IF FindRestaurant(restaurantId) = 0 THEN 404 ELSE 201

\* POST / without the catalog check
CreateStatus_NoCatalog(list, restaurantId) ==
    IF AlreadyStarred(list, restaurantId) THEN 409 ELSE 201

\* the status POST / ends with
CreateStatus(list, restaurantId) ==
    IF FindRestaurant(restaurantId) = 0 THEN 404
    ELSE IF AlreadyStarred(list, restaurantId) THEN 409
    ELSE 201

\* a filter with the predicate inverted (r.id === id)
FilterOut_Inverted(list, id) == SelectSeq(list, LAMBDA r : r.id = id)

\* STARRED_RESTAURANTS.filter(r => r.id !== id)
FilterOut(list, id) == SelectSeq(list, LAMBDA r : r.id # id)

\* DELETE /:id without the length comparison
DeleteStatus_Always200(list, newList) == 200

\* the status DELETE /:id ends with
DeleteStatus(list, newList) ==
    IF Len(newList) = Len(list) THEN 404 ELSE 200

Slots == 1..MaxSlots

\* a handler's frame: where it stands, its request and its local newList
FreeFrame == [pc |-> "free", req |-> NoRequest, newList |-> << >>]

----------------------------------------------------------------------------
(* Spec: one request at a time *)

Handled(request, response, list) ==
    /\ req' = request
    /\ res' = response
    /\ before' = STARRED_RESTAURANTS
    /\ lastCreated' = IF req.op = "create" /\ res.status = 201
                      THEN res.body ELSE NoBody
    /\ STARRED_RESTAURANTS' = list
    /\ UNCHANGED concVars

\* router.get("/")
List ==
    /\ Handled([NoRequest EXCEPT !.op = "list"],
               ListResponse(STARRED_RESTAURANTS), STARRED_RESTAURANTS)
    /\ UNCHANGED issued

\* router.get('/:id')
GetById(id) ==
    /\ Handled([NoRequest EXCEPT !.op = "get", !.id = id],
               GetResponse(STARRED_RESTAURANTS, id), STARRED_RESTAURANTS)
    /\ UNCHANGED issued

\* router.post('/')
Create(restaurantId, comment) ==
    LET request == [NoRequest EXCEPT !.op = "create",
                        !.restaurantId = restaurantId, !.comment = comment]
        status == CreateStatus(STARRED_RESTAURANTS, restaurantId)
        newStarred == NewStarred(uuidv4(issued + 1), restaurantId, comment)
    IN  IF status # 201
        THEN /\ Handled(request, [status |-> status, body |-> NoBody],
                        STARRED_RESTAURANTS)
             /\ UNCHANGED issued
        ELSE /\ issued < MaxUuid
             /\ issued' = issued + 1
             /\ Handled(request,
                        [status |-> 201, body |-> ObjectBody(newStarred)],
                        Push(STARRED_RESTAURANTS, newStarred))

\* router.delete('/:id')
Delete(id) ==
    LET newList == FilterOut(STARRED_RESTAURANTS, id)
        status == DeleteStatus(STARRED_RESTAURANTS, newList)
    IN  /\ Handled([NoRequest EXCEPT !.op = "delete", !.id = id],
                   [status |-> status, body |-> NoBody],
                   IF status = 404 THEN STARRED_RESTAURANTS ELSE newList)
        /\ UNCHANGED issued

\* Feature 10: the router registers no PATCH or PUT route, the request falls
\* through the router and Express answers 404
UpdateComment(id, comment) ==
    /\ Handled([NoRequest EXCEPT !.op = "update", !.id = id,
                    !.comment = comment],
               [status |-> 404, body |-> NoBody], STARRED_RESTAURANTS)
    /\ UNCHANGED issued

Init ==
    /\ STARRED_RESTAURANTS = SeedStarred
    /\ issued = 0
    /\ req = NoRequest
    /\ res = NoResponse
    /\ before = SeedStarred
    /\ lastCreated = NoBody
    /\ handlers = [s \in Slots |-> FreeFrame]
    /\ acked = [s \in Slots |-> NoResponse]

Next ==
    \/ List
    \/ \E id \in IdInputs : GetById(id)
    \/ \E restaurantId \in RestaurantIdInputs, comment \in CommentInputs :
            Create(restaurantId, comment)
    \/ \E id \in IdInputs : Delete(id)
    \/ \E id \in IdInputs, comment \in NewCommentInputs :
            UpdateComment(id, comment)

Spec == Init /\ [][Next]_vars

----------------------------------------------------------------------------
(* ConcSpec: several requests in flight *)

ConcCreateInputs ==
    {[NoRequest EXCEPT !.op = "create", !.restaurantId = r, !.comment = c] :
        r \in RestaurantIdInputs, c \in {"Great!"}}
ConcDeleteInputs ==
    {[NoRequest EXCEPT !.op = "delete", !.id = i] :
        i \in {SeedStarred[1].id, SeedStarred[2].id, uuidv4(1)}}

\* handlers that yield between their statements (as with an await)
Idle_Yielding(s) == TRUE

\* the handlers are synchronous callbacks (no await, no callback inside):
\* the event loop enters one only when no other handler is on the stack
Idle(s) ==
    \A t \in Slots \ {s} : handlers[t].pc \in {"free", "pending", "done"}

At(s, op, pc) == handlers[s].pc = pc /\ handlers[s].req.op = op

Goto(s, pc) == handlers' = [handlers EXCEPT ![s].pc = pc]

Respond(s, response) ==
    /\ acked' = [acked EXCEPT ![s] = response]
    /\ Goto(s, "done")

\* a client sends a request; it waits in the lowest free slot
Arrive(request) ==
    /\ \E s \in Slots :
        /\ handlers[s].pc = "free"
        /\ \A t \in Slots : t < s => handlers[t].pc # "free"
        /\ handlers' = [handlers EXCEPT ![s] = [FreeFrame EXCEPT
                            !.pc = "pending", !.req = request]]
    /\ UNCHANGED <<STARRED_RESTAURANTS, issued, acked>>
    /\ UNCHANGED seqVars

\* the event loop calls the route's callback
Dispatch(s) ==
    /\ handlers[s].pc = "pending"
    /\ Idle(s)
    /\ Goto(s, "entry")
    /\ UNCHANGED <<STARRED_RESTAURANTS, issued, acked>>
    /\ UNCHANGED seqVars

\* POST /: const restaurant = ALL_RESTAURANTS.find(...); if (!restaurant) 404
CreateFindRestaurant(s) ==
    /\ At(s, "create", "entry")
    /\ IF FindRestaurant(handlers[s].req.restaurantId) = 0
       THEN Respond(s, [status |-> 404, body |-> NoBody])
       ELSE Goto(s, "some") /\ UNCHANGED acked
    /\ UNCHANGED <<STARRED_RESTAURANTS, issued>>
    /\ UNCHANGED seqVars

\* POST /: const alreadyStarred = ...some(...); if (alreadyStarred) 409
CreateCheckStarred(s) ==
    /\ At(s, "create", "some")
    /\ IF AlreadyStarred(STARRED_RESTAURANTS, handlers[s].req.restaurantId)
       THEN Respond(s, [status |-> 409, body |-> NoBody])
       ELSE Goto(s, "push") /\ UNCHANGED acked
    /\ UNCHANGED <<STARRED_RESTAURANTS, issued>>
    /\ UNCHANGED seqVars

\* POST /: newStarred = {...}; STARRED_RESTAURANTS.push(newStarred); 201
CreatePush(s) ==
    /\ At(s, "create", "push")
    /\ issued < MaxUuid
    /\ LET newStarred == NewStarred(uuidv4(issued + 1),
                handlers[s].req.restaurantId, handlers[s].req.comment)
       IN  /\ STARRED_RESTAURANTS' = Push(STARRED_RESTAURANTS, newStarred)
           /\ Respond(s, [status |-> 201, body |-> ObjectBody(newStarred)])
    /\ issued' = issued + 1
    /\ UNCHANGED seqVars

\* DELETE /:id: const newList = STARRED_RESTAURANTS.filter(...)
DeleteFilter(s) ==
    /\ At(s, "delete", "entry")
    /\ handlers' = [handlers EXCEPT ![s].pc = "compare",
            ![s].newList = FilterOut(STARRED_RESTAURANTS, handlers[s].req.id)]
    /\ UNCHANGED <<STARRED_RESTAURANTS, issued, acked>>
    /\ UNCHANGED seqVars

\* DELETE /:id: if (newList.length === STARRED_RESTAURANTS.length) 404
DeleteCompare(s) ==
    /\ At(s, "delete", "compare")
    /\ IF DeleteStatus(STARRED_RESTAURANTS, handlers[s].newList) = 404
       THEN Respond(s, [status |-> 404, body |-> NoBody])
       ELSE Goto(s, "assign") /\ UNCHANGED acked
    /\ UNCHANGED <<STARRED_RESTAURANTS, issued>>
    /\ UNCHANGED seqVars

\* DELETE /:id: STARRED_RESTAURANTS = newList; 200
DeleteAssign(s) ==
    /\ At(s, "delete", "assign")
    /\ STARRED_RESTAURANTS' = handlers[s].newList
    /\ Respond(s, [status |-> 200, body |-> NoBody])
    /\ UNCHANGED issued
    /\ UNCHANGED seqVars

ConcNext ==
    \/ \E request \in ConcCreateInputs \cup ConcDeleteInputs : Arrive(request)
    \/ \E s \in Slots : Dispatch(s)
    \/ \E s \in Slots : CreateFindRestaurant(s)
    \/ \E s \in Slots : CreateCheckStarred(s)
    \/ \E s \in Slots : CreatePush(s)
    \/ \E s \in Slots : DeleteFilter(s)
    \/ \E s \in Slots : DeleteCompare(s)
    \/ \E s \in Slots : DeleteAssign(s)

ConcSpec == Init /\ [][ConcNext]_vars

----------------------------------------------------------------------------
(* Properties *)

\* the name of the catalog entry with the given id
CatalogName(restaurantId) ==
    CHOOSE n \in {ALL_RESTAURANTS[i].name : i \in DOMAIN ALL_RESTAURANTS} :
        \E i \in DOMAIN ALL_RESTAURANTS :
            /\ ALL_RESTAURANTS[i].id = restaurantId
            /\ ALL_RESTAURANTS[i].name = n

IdsOf(list) == {list[i].id : i \in DOMAIN list}
RestaurantIdsOf(list) == {list[i].restaurantId : i \in DOMAIN list}

\* the list with its k-th element taken out
Without(list, k) ==
    [i \in 1..(Len(list) - 1) |-> IF i < k THEN list[i] ELSE list[i + 1]]

\* C1: after any sequence of requests from the seed list, no two records of
\* STARRED_RESTAURANTS have the same restaurantId
C1_NoDuplicateRestaurantId ==
    \A i, j \in DOMAIN STARRED_RESTAURANTS :
        i # j => STARRED_RESTAURANTS[i].restaurantId
                    # STARRED_RESTAURANTS[j].restaurantId

\* a restaurant was starred, after a delete, while two others were starred
C1_Witness ==
    /\ req.op = "create" /\ res.status = 201
    /\ issued >= 2
    /\ Len(STARRED_RESTAURANTS) = 3

\* C2: POST / with a catalog restaurantId that some record already has
\* answers 409 and leaves the list as it was
C2_ConflictLeavesListUnchanged ==
    (/\ req.op = "create"
     /\ req.restaurantId \in CatalogIds
     /\ req.restaurantId \in RestaurantIdsOf(before))
        => /\ res.status = 409
           /\ res.body = NoBody
           /\ STARRED_RESTAURANTS = before

\* a restaurant starred by an earlier POST is posted again
C2_Witness ==
    /\ req.op = "create" /\ res.status = 409
    /\ req.restaurantId = "R1"
    /\ Len(before) = 3

\* C3: POST / with a restaurantId that no catalog entry has (undefined
\* included) answers 404 and leaves the list as it was
C3_UnknownRestaurantNotFound ==
    (/\ req.op = "create"
     /\ req.restaurantId \notin CatalogIds)
        => /\ res.status = 404
           /\ res.body = NoBody
           /\ STARRED_RESTAURANTS = before

\* a POST without restaurantId, after the list has changed
C3_Witness ==
    /\ req.op = "create" /\ res.status = 404
    /\ req.restaurantId = Undefined
    /\ before # SeedStarred

\* C4: DELETE /:id with an id no record has answers 404 and leaves the list
\* as it was
C4_DeleteUnknownIdNotFound ==
    (/\ req.op = "delete"
     /\ req.id \notin IdsOf(before))
        => /\ res.status = 404
           /\ STARRED_RESTAURANTS = before

\* a seed record is deleted a second time, other records being held
C4_Witness ==
    /\ req.op = "delete" /\ res.status = 404
    /\ req.id = SeedStarred[1].id
    /\ Len(before) >= 2

\* C5: GET /:id right after a 201 POST, with the id that POST returned,
\* answers 200 with {id, comment, name}: id and comment of the created
\* record, name of the catalog entry of its restaurantId
C5_CreateThenGet ==
    (/\ req.op = "get"
     /\ lastCreated.kind = "object"
     /\ req.id = lastCreated.items[1].id)
        => /\ res.status = 200
           /\ res.body.kind = "object"
           /\ res.body.items[1] =
                [id |-> lastCreated.items[1].id,
                 comment |-> lastCreated.items[1].comment,
                 name |-> CatalogName(lastCreated.items[1].restaurantId)]

\* the record created by the request before is read back
C5_Witness ==
    /\ req.op = "get" /\ res.status = 200
    /\ lastCreated.kind = "object"
    /\ req.id = lastCreated.items[1].id
    /\ lastCreated.items[1].restaurantId = "R1"

C7_UpdateComment ==
    req.op = "update"
        => IF req.id \in IdsOf(before)
           THEN /\ res.status = 200
                /\ Len(STARRED_RESTAURANTS) = Len(before)
                /\ \A i \in DOMAIN before :
                    STARRED_RESTAURANTS[i] =
                        IF before[i].id = req.id
                        THEN [before[i] EXCEPT !.comment = req.comment]
                        ELSE before[i]
           ELSE /\ res.status = 404
                /\ STARRED_RESTAURANTS = before

\* C8: DELETE /:id with the id of a record answers 200 and the list is the
\* old list with that one record taken out, the others as they were and in
\* their order
C8_DeleteRemovesExactlyOne ==
    (/\ req.op = "delete"
     /\ req.id \in IdsOf(before))
        => /\ res.status = 200
           /\ \E k \in DOMAIN before :
                /\ before[k].id = req.id
                /\ STARRED_RESTAURANTS = Without(before, k)

\* the middle one of three records is deleted
C8_Witness ==
    /\ req.op = "delete" /\ res.status = 200
    /\ Len(before) = 3
    /\ req.id = before[2].id

\* C9: POST / with a catalog restaurantId no record has answers 201 with
\* {id, restaurantId, comment}: an id no held record has, the comment
\* supplied or "" when none is, and the list is the old list with that
\* record appended
C9_CreateAppendsOne ==
    (/\ req.op = "create"
     /\ req.restaurantId \in CatalogIds
     /\ req.restaurantId \notin RestaurantIdsOf(before))
        => /\ res.status = 201
           /\ res.body.kind = "object"
           /\ res.body.items[1].restaurantId = req.restaurantId
           /\ res.body.items[1].comment =
                (IF req.comment = Undefined THEN "" ELSE req.comment)
           /\ res.body.items[1].id \notin IdsOf(before)
           /\ STARRED_RESTAURANTS = Append(before, res.body.items[1])

\* a POST without comment appends to a list that holds records
C9_Witness ==
    /\ req.op = "create" /\ res.status = 201
    /\ req.comment = Undefined
    /\ Len(before) = 2
    /\ issued >= 2

\* C10: with several requests in flight no two records share a
\* restaurantId, a record acknowledged with 201 stays in the list until a
\* DELETE of its id is acknowledged with 200, and a record whose DELETE was
\* acknowledged with 200 is not in the list
C10_NoLostUpdateNoDuplicate ==
    /\ \A i, j \in DOMAIN STARRED_RESTAURANTS :
        i # j => STARRED_RESTAURANTS[i].restaurantId
                    # STARRED_RESTAURANTS[j].restaurantId
    /\ \A s \in Slots :
        (handlers[s].req.op = "create" /\ acked[s].status = 201)
            => \/ acked[s].body.items[1] \in Range(STARRED_RESTAURANTS)
               \/ \E t \in Slots :
                    /\ handlers[t].req.op = "delete"
                    /\ handlers[t].req.id = acked[s].body.items[1].id
                    /\ acked[t].status = 200
    /\ \A t \in Slots :
        (handlers[t].req.op = "delete" /\ acked[t].status = 200)
            => handlers[t].req.id \notin IdsOf(STARRED_RESTAURANTS)

\* a POST stands between its check and its push while a POST for the same
\* restaurant and a DELETE are in flight
C10_Witness ==
    \E s, t, u \in Slots :
        /\ handlers[s].pc = "push"
        /\ handlers[t].pc = "pending" /\ handlers[t].req.op = "create"
        /\ handlers[t].req.restaurantId = handlers[s].req.restaurantId
        /\ handlers[u].pc = "pending" /\ handlers[u].req.op = "delete"

====
